---- MODULE Spec2Model ----
(***************************************************************************)
(* Multi-model stock price forecasting engine (utils/predictions.ts):      *)
(* statistical helpers, the four forecasters, the metric functions, the    *)
(* 80/20 backtest and the entry point that emits dated predictions.        *)
(*                                                                         *)
(* Numbers.  Closes are integers (whole currency units).  Every price the  *)
(* code computes is held in fixed point with FP parts per unit; ratios     *)
(* (momentum, similarity, powers) carry the scale written next to them.    *)
(* Integer division rounds toward minus infinity where the IEEE double     *)
(* would round to nearest.  A value the code can make non-finite is a      *)
(* record [k, v] with k in {"fin", "nan", "inf"}.                          *)
(*                                                                         *)
(* Dates.  A calendar day is the number of days since 1970-01-01; the      *)
(* string YYYY-MM-DD and that number determine each other.  An instant is  *)
(* a number of minutes since the epoch, as in the Date object.  A date     *)
(* string Date cannot parse is the day Malformed; the Invalid Date it      *)
(* yields has the time value InvalidTime (NaN in the code).                *)
(***************************************************************************)
EXTENDS Integers, Sequences, FiniteSets, TLC

VARIABLES
    hist,       \* the caller's historical sequence of HistoricalDataPoint
    tz,         \* minutes the runtime's local time is ahead of UTC
    op,         \* the operation that ran last
    arg,        \* the inputs of that operation
    preds,      \* value returned by generatePredictions
    metrics,    \* value returned by calculateAllModelMetrics
    combined,   \* value returned by combineDataWithPredictions
    price,      \* value returned by a forecaster called directly
    ev,         \* values returned by the four metric functions
    calls,      \* forecaster invocations made by the last operation
    thrown,     \* the exception the last operation ended with, or "none"
    probe,      \* intermediate values of the last forecaster call
    page,       \* the state of the Index page
    kept        \* an earlier call the caller kept: inputs, draws and result

vars == <<hist, tz, op, arg, preds, metrics, combined, price, ev, calls,
          thrown, probe, page, kept>>

-----------------------------------------------------------------------------
(* Bounds of the model *)

MaxLen == 21        \* longest history
MaxHorizon == 30    \* largest daysToPredict
MaxArr == 3         \* longest array handed to a metric function directly
MaxVal == 3         \* largest value in such an array

-----------------------------------------------------------------------------
(* Arithmetic *)

FP == 1000          \* fixed-point parts per currency unit

Abs(x) == IF x < 0 THEN -x ELSE x

Max(a, b) == IF a > b THEN a ELSE b

Min(a, b) == IF a < b THEN a ELSE b

RECURSIVE SumSeq(_)
SumSeq(s) == IF s = <<>> THEN 0 ELSE Head(s) + SumSeq(Tail(s))

RECURSIVE SumSq(_)
SumSq(s) == IF s = <<>> THEN 0 ELSE Head(s) * Head(s) + SumSq(Tail(s))

RECURSIVE MaxSeq(_)
MaxSeq(s) == IF Len(s) = 1 THEN s[1] ELSE Max(Head(s), MaxSeq(Tail(s)))

RECURSIVE MinSeq(_)
MinSeq(s) == IF Len(s) = 1 THEN s[1] ELSE Min(Head(s), MinSeq(Tail(s)))

\* Array.prototype.slice(-k): the last k elements, or all of them
SliceLast(s, k) == SubSeq(s, Max(1, Len(s) - k + 1), Len(s))

\* floor(a * b / c) for a, b >= 0 and 0 < c < 10^6, b < 10^6, without
\* forming a * b: a = qa c + ra and b = 1000 bh + bl
MulDiv(a, b, c) ==
    LET qa == a \div c
        ra == a % c
        bh == b \div 1000
        bl == b % 1000
        q1 == (ra * bh) \div c
        r1 == (ra * bh) % c
    IN  qa * b + q1 * 1000 + ((r1 * 1000 + ra * bl) \div c)

\* p1/q1 < p2/q2 for p >= 0 and q > 0, by continued fractions
RECURSIVE FracLess(_, _, _, _)
FracLess(p1, q1, p2, q2) ==
    LET f1 == p1 \div q1
        f2 == p2 \div q2
        r1 == p1 % q1
        r2 == p2 % q2
    IN  IF f1 # f2 THEN f1 < f2
        ELSE IF r2 = 0 THEN FALSE
        ELSE IF r1 = 0 THEN TRUE
        ELSE FracLess(q2, r2, q1, r1)

\* Math.sqrt on a non-negative integer, rounded down
RECURSIVE SqrtIter(_, _, _)
SqrtIter(x, lo, hi) ==
    IF lo >= hi THEN lo
    ELSE LET mid == (lo + hi + 1) \div 2
         IN  IF mid * mid <= x THEN SqrtIter(x, mid, hi)
             ELSE SqrtIter(x, lo, mid - 1)

sqrt(x) == SqrtIter(x, 0, Min(x, 46340))

\* Math.pow(num/den, e) at scale 10000
RECURSIVE pow(_, _, _)
pow(num, den, e) ==
    IF e = 0 THEN 10000 ELSE (pow(num, den, e - 1) * num) \div den

\* Math.tanh at scale 10000 of an argument at scale 1000: the table holds
\* tanh(0), tanh(0.5), ..., tanh(4) and values between are interpolated
TanhTable == <<0, 4621, 7616, 9051, 9640, 9866, 9951, 9982, 9993>>

tanh(x) ==
    IF x < 0 THEN 0 - 10000
    ELSE IF x >= 4000 THEN 9993 + Min(7, (x - 4000) \div 1000)
    ELSE LET k == x \div 500
             lo == TanhTable[k + 1]
             hi == TanhTable[k + 2]
         IN  lo + (((hi - lo) * (x % 500)) \div 500)

\* Non-finite doubles
Fin(x) == [k |-> "fin", v |-> x]

NaN == [k |-> "nan", v |-> 0]

Inf(s) == [k |-> "inf", v |-> s]

\* Math.random() - 0.5 in hundredths: -0.5, 0 and just under 0.5
RandomValues == {0 - 50, 0, 49}

\* the random source as the sequence of values successive calls return
Tapes == [1..2 -> RandomValues]

Random(tape, j) == tape[1 + (j % 2)]

-----------------------------------------------------------------------------
(* Statistical helpers: a sequence of closes in, fixed point out *)

mean(data) ==
    IF Len(data) = 0 THEN 0 ELSE (SumSeq(data) * FP) \div Len(data)

\* population variance, in FP parts of a squared unit
variance(data) ==
    IF Len(data) < 2 THEN 0
    ELSE LET n == Len(data)
             s == SumSeq(data)
         IN  ((n * SumSq(data) - s * s) * FP) \div (n * n)

stdDev(data) == sqrt(variance(data) * FP)

-----------------------------------------------------------------------------
(* Forecasters.  data is a sequence of points [date, close, volume],       *)
(* 1-based here where the code is 0-based; r is what the call draws from   *)
(* the random source (Math.random() - 0.5, in hundredths).                 *)

Closes(data) == [i \in 1..Len(data) |-> data[i].close]

Volumes(data) == [i \in 1..Len(data) |-> data[i].volume]

\* data[data.length - 1]?.close || 0
LastCloseOrZero(data) ==
    IF Len(data) = 0 THEN 0 ELSE data[Len(data)].close * FP

\* the guard written as length < 4
LinearRegressionMinLow == 5 - 1

LinearRegressionMin == 5

\* the least-squares line y = m x + b through (i, closes[i]), read at x
TrendLine(closes, x) ==
    LET n == Len(closes)
        sumX == SumSeq([i \in 1..n |-> i - 1])
        sumY == SumSeq(closes)
        sumXY == SumSeq([i \in 1..n |-> (i - 1) * closes[i]])
        sumX2 == SumSeq([i \in 1..n |-> (i - 1) * (i - 1)])
        m == ((n * sumXY - sumX * sumY) * FP)
                 \div (n * sumX2 - sumX * sumX)
        b == (sumY * FP - m * sumX) \div n
    IN  m * x + b

\* the extrapolation read one index early, at n + daysAhead - 2
TrendPredictionEarly(closes, daysAhead) ==
    TrendLine(closes, Len(closes) + daysAhead - 2)

\* const prediction = m * (n + daysAhead - 1) + b
TrendPrediction(closes, daysAhead) ==
    TrendLine(closes, Len(closes) + daysAhead - 1)

\* stdDev / mean of the last 20 closes, in thousandths
VolatilityRatio(closes) ==
    (stdDev(SliceLast(closes, 20)) * FP) \div mean(SliceLast(closes, 20))

predictLinearRegression(data, daysAhead, r) ==
    IF Len(data) < LinearRegressionMin THEN Fin(LastCloseOrZero(data))
    ELSE LET closes == Closes(data)
             n == Len(closes)
             prediction == TrendPrediction(closes, daysAhead)
             volatility == VolatilityRatio(closes)
             noise == (r * volatility * closes[n]) \div 1000
         IN  Fin(Max(prediction + noise, (closes[n] * FP * 7) \div 10))

ARIMAMin == 10

\* sum over i = 0 .. daysAhead - 1 of ar * 0.9^i + ma * 0.85^i
RECURSIVE ARIMASteps(_, _, _)
ARIMASteps(ar, ma, i) ==
    IF i < 0 THEN 0
    ELSE ARIMASteps(ar, ma, i - 1)
         + ((ar * pow(9, 10, i)) \div 10000)
         + ((ma * pow(85, 100, i)) \div 10000)

predictARIMA(data, daysAhead, r) ==
    IF Len(data) < ARIMAMin THEN Fin(LastCloseOrZero(data))
    ELSE LET closes == Closes(data)
             n == Len(closes)
             diffs == [i \in 1..(n - 1) |-> closes[i + 1] - closes[i]]
             ar1 == diffs[Len(diffs)]
             ar2 == diffs[Len(diffs) - 1]
             arComponent == 600 * ar1 + 300 * ar2
             recentCloses == SliceLast(closes, 10)
             sma == mean(recentCloses)
             errors == [i \in 1..Len(recentCloses) |->
                           recentCloses[i] * FP - sma]
             maComponent == (4 * (SumSeq(SliceLast(errors, 2)) \div 2))
                                \div 10
             prediction == closes[n] * FP
                           + ARIMASteps(arComponent, maComponent,
                                        daysAhead - 1)
             volatility == stdDev(SliceLast(closes, 20))
             adjustment == (r * volatility * 15) \div 10000
         IN  Fin(Max(prediction + adjustment, (closes[n] * FP * 75) \div 100))

RandomForestMin == 15

\* what the volatility-breakout tree adds to the last close:
\* trend * volatility * Math.sqrt(daysAhead) * 0.3, trend being 1 or -1
BreakoutStep(closes, daysAhead) ==
    LET n == Len(closes)
        volatility == stdDev(SliceLast(closes, 10))
        trend == IF closes[n] > closes[n - 4] THEN 1 ELSE 0 - 1
    IN  trend * ((volatility * sqrt(daysAhead * 10000) * 3) \div 1000)

predictRandomForest(data, daysAhead) ==
    IF Len(data) < RandomForestMin THEN Fin(LastCloseOrZero(data))
    ELSE LET closes == Closes(data)
             volumes == Volumes(data)
             n == Len(closes)
             last == closes[n]
             \* Tree 1: momentum
             momentum5 == ((last - closes[n - 5]) * FP) \div closes[n - 5]
             momentum10 == ((last - closes[n - 10]) * FP) \div closes[n - 10]
             tree1 == last * FP
                      + ((last * (7 * momentum5 + 3 * momentum10) * daysAhead)
                             \div 100)
             \* Tree 2: mean reversion
             sma20 == mean(SliceLast(closes, 20))
             deviation == ((last * FP - sma20) * FP) \div sma20
             tree2 == last * FP - ((deviation * last * 2 * daysAhead) \div 10)
             \* Tree 3: volume-weighted; the two means are compared exactly
             v20 == SliceLast(volumes, 20)
             v5 == SliceLast(volumes, 5)
             volSignal == IF SumSeq(v5) * Len(v20) > SumSeq(v20) * Len(v5)
                          THEN 1020 ELSE 980
             tree3 == last * FP
                      + (((last - closes[n - 4]) * daysAhead * volSignal)
                             \div 5)
             \* Tree 4: support / resistance
             high20 == MaxSeq(SliceLast(closes, 20))
             low20 == MinSeq(SliceLast(closes, 20))
             mid == ((high20 + low20) * FP) \div 2
             tree4 == mid + (((last * FP - mid) * pow(92, 100, daysAhead))
                                 \div 10000)
             \* Tree 5: volatility breakout
             tree5 == last * FP + BreakoutStep(closes, daysAhead)
         IN  Fin((tree1 + tree2 + tree3 + tree4 + tree5) \div 5)

LSTMMin == 15

lookback == 5

\* cellState after the fold over closes[1..i]: forget gate 0.9, input gate 0.3
RECURSIVE CellState(_, _)
CellState(closes, i) ==
    IF i = 1 THEN closes[1] * FP
    ELSE (9 * CellState(closes, i - 1) + 3 * closes[i] * FP) \div 10

\* 1 - cos^2 of the angle between two windows is CrossSq / (|a|^2 |b|^2)
CrossSq(a, b) ==
    SumSeq([t \in 1..(lookback * lookback) |->
               LET j == ((t - 1) \div lookback) + 1
                   k == ((t - 1) % lookback) + 1
                   x == a[j] * b[k] - a[k] * b[j]
               IN  x * x]) \div 2

\* The scan over candidate windows i = lookback .. upTo (0-based, as in the
\* code).  Cosine similarity does not change when a window is divided by its
\* mean, so the windows are scored as they are; a candidate replaces the best
\* one only when strictly more similar, that is when its CrossSq / |b|^2 is
\* strictly smaller.  found = FALSE stands for bestSimilarity = -Infinity.
RECURSIVE PatternScan(_, _, _)
PatternScan(closes, recentPattern, upTo) ==
    IF upTo < lookback
    THEN [bestMatch |-> 0, found |-> FALSE, cross |-> 0, normB |-> 1]
    ELSE LET prev == PatternScan(closes, recentPattern, upTo - 1)
             candidate == SubSeq(closes, upTo + 1, upTo + lookback)
             cross == CrossSq(recentPattern, candidate)
             normB == SumSq(candidate)
         IN  IF ~prev.found \/ FracLess(cross, normB, prev.cross, prev.normB)
             THEN [bestMatch |-> upTo, found |-> TRUE,
                   cross |-> cross, normB |-> normB]
             ELSE prev

\* bestSimilarity at scale 10000
Similarity(scan, recentPattern) ==
    LET sin2 == MulDiv(scan.cross, 100000, SumSq(recentPattern))
                    \div scan.normB
    IN  sqrt((100000 - sin2) * 1000)

\* the 14 changes closes[i] - closes[i - 1] the RSI loop reads
RSIChanges(closes) ==
    LET n == Len(closes)
    IN  [t \in 1..14 |-> closes[n - 14 + t] - closes[n - 15 + t]]

RECURSIVE SumGains(_)
SumGains(ch) ==
    IF ch = <<>> THEN 0
    ELSE (IF Head(ch) > 0 THEN Head(ch) ELSE 0) + SumGains(Tail(ch))

RECURSIVE CountGains(_)
CountGains(ch) ==
    IF ch = <<>> THEN 0
    ELSE (IF Head(ch) > 0 THEN 1 ELSE 0) + CountGains(Tail(ch))

\* avgLoss = losses.length > 0 ? mean(losses) : 0.001 as the fraction
\* num / den; every change that is not a gain is pushed to losses
RSIAvgLoss(closes) ==
    LET ch == RSIChanges(closes)
        losses == Len(ch) - CountGains(ch)
    IN  IF losses > 0
        THEN [num |-> SumGains(ch) - SumSeq(ch), den |-> losses]
        ELSE [num |-> 1, den |-> 1000]

\* rsiSignal in thousandths.  avgGain = gn/gd, avgLoss = ln/ld; with
\* avgLoss = 0 the ratio is Infinity (RSI 100) or NaN (no signal).
RSISignal(closes) ==
    LET ch == RSIChanges(closes)
        gains == CountGains(ch)
        gn == SumGains(ch)
        gd == IF gains > 0 THEN gains ELSE 1
        ln == RSIAvgLoss(closes).num
        ld == RSIAvgLoss(closes).den
    IN  IF ln = 0 THEN (IF gn > 0 THEN 0 - 10 ELSE 0)
        ELSE IF 3 * gn * ld > 7 * ln * gd THEN 0 - 10
        ELSE IF 7 * gn * ld < 3 * ln * gd THEN 10
        ELSE 0

\* bbSignal in thousandths; the 1e-8 in the denominator only decides the
\* comparisons when the band has zero width
BBSignal(closes) ==
    LET sma20 == mean(SliceLast(closes, 20))
        std20 == stdDev(SliceLast(closes, 20))
        lowerBand == sma20 - 2 * std20
        num == closes[Len(closes)] * FP - lowerBand
    IN  IF 10 * num > 36 * std20 THEN 0 - 5
        ELSE IF 10 * num <= 4 * std20 THEN 5
        ELSE 0

\* the first and last candidate window start of the pattern scan:
\* for (let i = lookback; i < closes.length - lookback - 5; i++)
ScanFirst == lookback

\* the scan running on to the last window that fits before the recent one
ScanLastLate(n) == n - lookback - 1

ScanLast(n) == n - lookback - 5 - 1

\* futureIdx = Math.min(bestMatch + lookback + daysAhead - 1, n - 1)
FutureIdx(bestMatch, daysAhead, n) ==
    Min(bestMatch + lookback + daysAhead - 1, n - 1)

predictLSTM(data, daysAhead) ==
    IF Len(data) < LSTMMin THEN Fin(LastCloseOrZero(data))
    ELSE LET closes == Closes(data)
             volumes == Volumes(data)
             n == Len(closes)
             lastClose == closes[n]
             cellState == CellState(closes, n)
             hiddenState == MulDiv(tanh((cellState * 1000)
                                            \div (lastClose * FP)),
                                   cellState, 10000)
             recentPattern == SliceLast(closes, lookback)
             scan == PatternScan(closes, recentPattern, ScanLast(n))
             futureIdx == FutureIdx(scan.bestMatch, daysAhead, n)
             base == closes[scan.bestMatch + lookback]
             patternChange == ((closes[futureIdx + 1] - base) * FP) \div base
             shortMomentum == ((lastClose - closes[n - 4]) * FP)
                                  \div closes[n - 4]
             longMomentum == ((lastClose - closes[n - 9]) * FP)
                                 \div closes[n - 9]
             v5 == SliceLast(volumes, 5)
             v20 == SliceLast(volumes, 20)
             volumeSignal == IF SumSeq(v5) * Len(v20) > SumSeq(v20) * Len(v5)
                             THEN 11 ELSE 9
             hiddenPrediction == MulDiv(hiddenState, lastClose * FP,
                                        cellState)
             patternPrediction ==
                 lastClose * FP
                 + ((lastClose * patternChange
                         * Similarity(scan, recentPattern)) \div 20000)
             momentumPrediction ==
                 lastClose * FP
                 + ((lastClose * (6 * shortMomentum + 4 * longMomentum)
                         * volumeSignal * 3 * daysAhead) \div 1000)
             technicalPrediction ==
                 lastClose * (1000 + RSISignal(closes) + BBSignal(closes))
             finalPrediction ==
                 (25 * hiddenPrediction + 20 * patternPrediction
                  + 25 * momentumPrediction + 30 * technicalPrediction)
                     \div 100
             decayFactor == 101 - daysAhead
         IN  IF scan.found
             THEN Fin((finalPrediction * decayFactor
                       + lastClose * FP * (daysAhead - 1)) \div 100)
             \* patternChange * -Infinity is NaN or an infinity, and so is
             \* everything computed from it
             ELSE IF closes[futureIdx + 1] = base \/ decayFactor = 0 THEN NaN
             ELSE IF (closes[futureIdx + 1] > base) = (decayFactor > 0)
                  THEN Inf(0 - 1)
             ELSE Inf(1)

-----------------------------------------------------------------------------
(* Intermediate values of a forecaster call: the values the code holds in   *)
(* its local constants and the index reads it makes.  Indices are 0-based   *)
(* as in the code; a read is [arr, idx, len], len being the length of the   *)
(* array read.                                                              *)

Read(arr, idx, len) == [arr |-> arr, idx |-> idx, len |-> len]

\* predictLinearRegression: closes[i] in the summing loop, closes[n - 1]
TrendReads(n) ==
    {Read("closes", i, n) : i \in 0..(n - 1)}

\* predictARIMA: closes[i] and closes[i - 1] in the differencing loop,
\* diffs[diffs.length - 1], diffs[diffs.length - 2], closes[n - 1]
ARIMAReads(n) ==
    {Read("closes", i, n) : i \in 1..(n - 1)}
        \cup {Read("closes", i - 1, n) : i \in 1..(n - 1)}
        \cup {Read("diffs", (n - 1) - 1, n - 1),
              Read("diffs", (n - 1) - 2, n - 1)}

\* predictRandomForest: the five trees
ForestReads(n) ==
    {Read("closes", n - 1, n), Read("closes", n - 6, n),
     Read("closes", n - 11, n), Read("closes", n - 5, n)}

\* the RSI loop with one step more, for (i = closes.length - 15; ...)
RSIStartEarly(n) == n - 15

\* for (let i = closes.length - 14; i < closes.length; i++)
RSIStart(n) == n - 14

\* predictLSTM: the state fold, the scan, the pattern change, the momenta
\* and the RSI loop
LSTMReads(n, bestMatch, daysAhead) ==
    {Read("closes", i, n) : i \in 0..(n - 1)}
        \cup {Read("normalizedRecent", j, Min(lookback, n)) :
                 j \in 0..(lookback - 1)}
        \cup {Read("normalizedCandidate", j, Min(lookback, n - i)) :
                 i \in ScanFirst..ScanLast(n), j \in 0..(lookback - 1)}
        \cup {Read("closes", FutureIdx(bestMatch, daysAhead, n), n),
              Read("closes", bestMatch + lookback - 1, n),
              Read("closes", n - 1, n), Read("closes", n - 5, n),
              Read("closes", n - 10, n)}
        \cup {Read("closes", i, n) : i \in RSIStart(n)..(n - 1)}
        \cup {Read("closes", i - 1, n) : i \in RSIStart(n)..(n - 1)}

NoInternals ==
    [reads |-> {}, prediction |-> 0, band |-> 0, breakout |-> 0,
     avgLoss |-> [num |-> 0, den |-> 1], scanned |-> {}, bestMatch |-> 0,
     futureIdx |-> 0]

\* what a forecaster call computed on the way to its result; a call that
\* returns at its length guard computed nothing
Internals(fn, data, daysAhead) ==
    LET closes == Closes(data)
        n == Len(data)
    IN  CASE fn = "linearRegression" /\ n >= LinearRegressionMin ->
                 [NoInternals EXCEPT
                     !.reads = TrendReads(n),
                     !.prediction = TrendPrediction(closes, daysAhead),
                     !.band = (VolatilityRatio(closes) * closes[n]) \div 10]
          [] fn = "arima" /\ n >= ARIMAMin ->
                 [NoInternals EXCEPT !.reads = ARIMAReads(n)]
          [] fn = "randomForest" /\ n >= RandomForestMin ->
                 [NoInternals EXCEPT
                     !.reads = ForestReads(n),
                     !.breakout = BreakoutStep(closes, daysAhead)]
          [] fn = "lstm" /\ n >= LSTMMin ->
                 LET scan == PatternScan(closes, SliceLast(closes, lookback),
                                         ScanLast(n))
                 IN  [NoInternals EXCEPT
                         !.reads = LSTMReads(n, scan.bestMatch, daysAhead),
                         !.avgLoss = RSIAvgLoss(closes),
                         !.scanned = ScanFirst..ScanLast(n),
                         !.bestMatch = scan.bestMatch,
                         !.futureIdx =
                             FutureIdx(scan.bestMatch, daysAhead, n)]
          [] OTHER -> NoInternals

-----------------------------------------------------------------------------
(* Metric calculations.  actual and predicted are sequences of fixed-point *)
(* prices.  MSE is returned at scale 10^6, MAE and R2 at scale 10^4 and    *)
(* the directional accuracy in hundredths of a percent.                    *)

\* |a - p| / maxPrice at scale 10^4
RelErr(a, p, maxPrice) == MulDiv(Abs(a - p), 10000, maxPrice)

calculateMSE(actual, predicted) ==
    IF Len(actual) # Len(predicted) \/ Len(actual) = 0 THEN 0
    ELSE LET maxPrice == MaxSeq(actual)
             sq(i) == LET e == RelErr(actual[i], predicted[i], maxPrice)
                      IN  (e * e) \div 100
         IN  SumSeq([i \in 1..Len(actual) |-> sq(i)]) \div Len(actual)

\* sums of squares in thousandths of a squared fixed-point part
SquaresFrom(xs, ys) ==
    SumSeq([i \in 1..Len(xs) |-> ((xs[i] - ys[i]) * (xs[i] - ys[i])) \div 1000])

\* R2 written as 1 - ssTot / ssRes, the two sums swapped
calculateR2Swapped(actual, predicted) ==
    IF Len(actual) # Len(predicted) \/ Len(actual) = 0 THEN 0
    ELSE LET m == SumSeq(actual) \div Len(actual)
             ssTot == SquaresFrom(actual, [i \in 1..Len(actual) |-> m])
             ssRes == SquaresFrom(actual, predicted)
         IN  IF ssRes > 0
             THEN 10000 - MulDiv(ssTot, 10000, ssRes)
             ELSE 0

calculateR2(actual, predicted) ==
    IF Len(actual) # Len(predicted) \/ Len(actual) = 0 THEN 0
    ELSE LET m == SumSeq(actual) \div Len(actual)
             ssTot == SquaresFrom(actual, [i \in 1..Len(actual) |-> m])
             ssRes == SquaresFrom(actual, predicted)
         IN  IF ssTot > 0
             THEN 10000 - MulDiv(ssRes, 10000, ssTot)
             ELSE 0

calculateMAE(actual, predicted) ==
    IF Len(actual) # Len(predicted) \/ Len(actual) = 0 THEN 0
    ELSE LET maxPrice == MaxSeq(actual)
         IN  SumSeq([i \in 1..Len(actual) |->
                        RelErr(actual[i], predicted[i], maxPrice)])
                 \div Len(actual)

\* predicted[i] > predicted[i - 1] ? 1 : -1, where an element past the end
\* of predicted is undefined and every comparison with it is false
PredDirection(predicted, i) ==
    IF i <= Len(predicted) /\ predicted[i] > predicted[i - 1]
    THEN 1 ELSE 0 - 1

calculateAccuracy(actual, predicted) ==
    IF Len(actual) = 0 THEN 0
    ELSE LET hit(i) ==
                 LET actualDirection ==
                         IF actual[i] > actual[i - 1] THEN 1 ELSE 0 - 1
                 IN  IF actualDirection = PredDirection(predicted, i)
                     THEN 1 ELSE 0
             correctDirection == SumSeq([i \in 1..(Len(actual) - 1) |->
                                            hit(i + 1)])
         IN  IF Len(actual) > 1
             THEN (correctDirection * 10000) \div (Len(actual) - 1)
             ELSE 0

ModelMetrics(actual, predicted) ==
    [mse |-> calculateMSE(actual, predicted),
     r2 |-> calculateR2(actual, predicted),
     mae |-> calculateMAE(actual, predicted),
     accuracy |-> calculateAccuracy(actual, predicted)]

-----------------------------------------------------------------------------
(* Metrics for all models *)

BacktestMin == 20

\* one forecaster invocation, as recorded in calls
Call(fn, data, daysAhead) ==
    [fn |-> fn, len |-> Len(data), daysAhead |-> daysAhead,
     dates |-> [i \in 1..Len(data) |-> data[i].date]]

\* the reduction written with a.r2 >= b.r2, which keeps the earlier model
\* on a tie
RECURSIVE ReduceBestFirst(_, _)
ReduceBestFirst(models, i) ==
    IF i = 1 THEN models[1]
    ELSE LET a == ReduceBestFirst(models, i - 1)
             b == models[i]
         IN  IF a.r2 >= b.r2 THEN a ELSE b

\* models.reduce((a, b) => a.r2 > b.r2 ? a : b) over models[1..i]
RECURSIVE ReduceBest(_, _)
ReduceBest(models, i) ==
    IF i = 1 THEN models[1]
    ELSE LET a == ReduceBest(models, i - 1)
             b == models[i]
         IN  IF a.r2 > b.r2 THEN a ELSE b

\* the thin-data metrics with the accuracy left at the coin-flip 50 %
emptyMetricsHalf == [mse |-> 0, r2 |-> 0, mae |-> 0, accuracy |-> 5000]

emptyMetrics == [mse |-> 0, r2 |-> 0, mae |-> 0, accuracy |-> 0]

\* the thin-data result with no model elected
EmptyAllModelMetricsNoBest ==
    [linearRegression |-> emptyMetrics,
     arima |-> emptyMetrics,
     randomForest |-> emptyMetrics,
     lstm |-> emptyMetrics,
     bestModel |-> "none"]

\* what calculateAllModelMetrics returns for fewer than BacktestMin points
EmptyAllModelMetrics ==
    [linearRegression |-> emptyMetrics,
     arima |-> emptyMetrics,
     randomForest |-> emptyMetrics,
     lstm |-> emptyMetrics,
     bestModel |-> "lstm"]

\* The training prefix has floor(0.8 n) >= 16 points, so every forecaster
\* returns a finite number here.
calculateAllModelMetrics(historicalData, tape) ==
    IF Len(historicalData) < BacktestMin THEN EmptyAllModelMetrics
    ELSE LET splitIdx == (Len(historicalData) * 8) \div 10
             trainData == SubSeq(historicalData, 1, splitIdx)
             valData == SubSeq(historicalData, splitIdx + 1,
                               Len(historicalData))
             k == Len(valData)
             valActual == [i \in 1..k |-> valData[i].close * FP]
             lrPredicted == [i \in 1..k |->
                 predictLinearRegression(trainData, i,
                                         Random(tape, i - 1)).v]
             arimaPredicted == [i \in 1..k |->
                 predictARIMA(trainData, i, Random(tape, k + i - 1)).v]
             rfPredicted == [i \in 1..k |->
                 predictRandomForest(trainData, i).v]
             lstmPredicted == [i \in 1..k |-> predictLSTM(trainData, i).v]
             lrMetrics == ModelMetrics(valActual, lrPredicted)
             arimaMetrics == ModelMetrics(valActual, arimaPredicted)
             rfMetrics == ModelMetrics(valActual, rfPredicted)
             lstmMetrics == ModelMetrics(valActual, lstmPredicted)
             models == <<[name |-> "linearRegression", r2 |-> lrMetrics.r2],
                         [name |-> "arima", r2 |-> arimaMetrics.r2],
                         [name |-> "randomForest", r2 |-> rfMetrics.r2],
                         [name |-> "lstm", r2 |-> lstmMetrics.r2]>>
         IN  [linearRegression |-> lrMetrics,
              arima |-> arimaMetrics,
              randomForest |-> rfMetrics,
              lstm |-> lstmMetrics,
              bestModel |-> ReduceBest(models, 4).name]

\* the backtest as a re-fit rolling forecast: validation point i is
\* forecast one day ahead from everything before it
MetricsCallsRolling(historicalData) ==
    IF Len(historicalData) < BacktestMin THEN <<>>
    ELSE LET splitIdx == (Len(historicalData) * 8) \div 10
             k == Len(historicalData) - splitIdx
             series(fn) ==
                 [i \in 1..k |->
                     Call(fn, SubSeq(historicalData, 1, splitIdx + i - 1), 1)]
         IN  series("linearRegression") \o series("arima")
                 \o series("randomForest") \o series("lstm")

\* the forecaster invocations calculateAllModelMetrics makes, in order
MetricsCalls(historicalData) ==
    IF Len(historicalData) < BacktestMin THEN <<>>
    ELSE LET splitIdx == (Len(historicalData) * 8) \div 10
             trainData == SubSeq(historicalData, 1, splitIdx)
             k == Len(historicalData) - splitIdx
             series(fn) == [i \in 1..k |-> Call(fn, trainData, i)]
         IN  series("linearRegression") \o series("arima")
                 \o series("randomForest") \o series("lstm")

-----------------------------------------------------------------------------
(* Main prediction function *)

\* the guard written as length <= 15
GenerateMinOffByOne == 15 + 1

GenerateMin == 15

MinutesPerDay == 1440

\* new Date("YYYY-MM-DD"): midnight UTC of that day
\* a date string that new Date() cannot parse
Malformed == 0 - 1

\* the time value of an Invalid Date
InvalidTime == 0 - 1

\* new Date(string)
DateOf(day) == IF day = Malformed THEN InvalidTime ELSE day * MinutesPerDay

\* Date.prototype.getDate / setDate work on the local calendar day
LocalDay(t, zone) == (t + zone) \div MinutesPerDay

\* nextDate.setDate(nextDate.getDate() + k): k local days later, same
\* local time of day
SetDatePlus(t, k) ==
    IF t = InvalidTime THEN InvalidTime ELSE t + k * MinutesPerDay

\* Date.prototype.getDay: local day of the week, 0 = Sunday; day 0 of the
\* epoch was a Thursday
GetDay(t, zone) ==
    IF t = InvalidTime THEN 0 - 1 ELSE (LocalDay(t, zone) + 4) % 7

\* toISOString().split('T')[0]: the UTC calendar day
ISODate(t) == t \div MinutesPerDay

\* day of the week of a calendar day, 0 = Sunday
DayOfWeek(day) == (day + 4) % 7

\* the weekend left backwards, for the Friday before it
RECURSIVE SkipWeekendBack(_, _)
SkipWeekendBack(t, zone) ==
    IF GetDay(t, zone) = 0 \/ GetDay(t, zone) = 6
    THEN SkipWeekendBack(SetDatePlus(t, 0 - 1), zone)
    ELSE t

\* while (getDay() === 0 || getDay() === 6) setDate(getDate() + 1)
RECURSIVE SkipWeekend(_, _)
SkipWeekend(t, zone) ==
    IF GetDay(t, zone) = 0 \/ GetDay(t, zone) = 6
    THEN SkipWeekend(SetDatePlus(t, 1), zone)
    ELSE t

\* What { linearRegression, arima, randomForest, lstm }[modelName] ||
\* predictLSTM selects.  The table is an object literal, so a name it does
\* not define is looked up on Object.prototype: "__proto__" yields that
\* prototype object, "constructor" yields the function Object, and a name
\* found nowhere yields undefined, which || replaces by predictLSTM.
PredictFnName(modelName) ==
    CASE modelName \in {"linearRegression", "arima", "randomForest", "lstm"}
             -> modelName
      [] modelName = "__proto__" -> "Object.prototype"
      [] modelName = "constructor" -> "Object"
      [] OTHER -> "lstm"

\* the dispatch with an ensemble-tree forecaster that perturbs its result
\* by Math.random() the way the trend forecaster does
predictFnNoisyForest(modelName, data, daysAhead, r) ==
    CASE PredictFnName(modelName) = "linearRegression" ->
             predictLinearRegression(data, daysAhead, r)
      [] PredictFnName(modelName) = "arima" ->
             predictARIMA(data, daysAhead, r)
      [] PredictFnName(modelName) = "randomForest" ->
             LET p == predictRandomForest(data, daysAhead)
             IN  IF p.k = "fin" THEN Fin(p.v + r) ELSE p
      [] PredictFnName(modelName) = "lstm" -> predictLSTM(data, daysAhead)
      [] PredictFnName(modelName) = "Object" -> NaN

\* predictFn(historicalData, i) as the number Math.round(predicted * 100)
\* sees: Object(historicalData, i) is the array itself, not a number
predictFn(modelName, data, daysAhead, r) ==
    CASE PredictFnName(modelName) = "linearRegression" ->
             predictLinearRegression(data, daysAhead, r)
      [] PredictFnName(modelName) = "arima" ->
             predictARIMA(data, daysAhead, r)
      [] PredictFnName(modelName) = "randomForest" ->
             predictRandomForest(data, daysAhead)
      [] PredictFnName(modelName) = "lstm" -> predictLSTM(data, daysAhead)
      [] PredictFnName(modelName) = "Object" -> NaN

\* Math.round(predicted * 100) / 100, in hundredths
Round2(x) == IF x.k = "fin" THEN Fin((x.v + 5) \div 10) ELSE x

\* the base taken from the forecaster that runs, so that a name falling
\* back to predictLSTM gets the base of lstm
baseConfidenceOfFn(modelName) ==
    IF PredictFnName(modelName) = "lstm" THEN 92
    ELSE IF modelName = "randomForest" THEN 88
    ELSE IF modelName = "arima" THEN 85
    ELSE 82

\* the chain of comparisons on modelName, in hundredths
baseConfidence(modelName) ==
    IF modelName = "lstm" THEN 92
    ELSE IF modelName = "randomForest" THEN 88
    ELSE IF modelName = "arima" THEN 85
    ELSE 82

\* the confidence without its Math.max(0.55, ...) floor
ConfidenceNoFloor(modelName, i) == baseConfidence(modelName) - 5 * i

\* confidence in hundredths
Confidence(modelName, i) == Max(55, baseConfidence(modelName) - 5 * i)

\* the dates counted from the first point of the history
FirstDate(historicalData) == DateOf(historicalData[1].date)

\* new Date(historicalData[historicalData.length - 1].date)
LastDate(historicalData) ==
    DateOf(historicalData[Len(historicalData)].date)

generatePredictions(historicalData, daysToPredict, modelName, tape, zone) ==
    IF Len(historicalData) < GenerateMin THEN <<>>
    ELSE LET lastDate == LastDate(historicalData)
         IN  [i \in 1..daysToPredict |->
                 LET nextDate == SkipWeekend(SetDatePlus(lastDate, i), zone)
                     predicted == predictFn(modelName, historicalData, i,
                                            Random(tape, i - 1))
                 IN  [date |-> ISODate(nextDate),
                      predictedClose |-> Round2(predicted),
                      confidence |-> Confidence(modelName, i),
                      isPrediction |-> TRUE,
                      model |-> modelName]]

\* The exception generatePredictions ends with, "none" when it returns.
\* Calling a prototype object is a TypeError (line 431); toISOString() of
\* an Invalid Date is a RangeError (line 438).  Both happen in the first
\* turn of the loop.
generateThrows(historicalData, daysToPredict, modelName) ==
    IF Len(historicalData) < GenerateMin \/ daysToPredict < 1 THEN "none"
    ELSE IF PredictFnName(modelName) = "Object.prototype" THEN "TypeError"
    ELSE IF DateOf(historicalData[Len(historicalData)].date) = InvalidTime
         THEN "RangeError"
    ELSE "none"

\* the strategy handed only the last 10 points of the history
GenerateCallsRecent(historicalData, daysToPredict, modelName) ==
    IF \/ Len(historicalData) < GenerateMin
       \/ PredictFnName(modelName) \in {"Object", "Object.prototype"}
    THEN <<>>
    ELSE [i \in 1..daysToPredict |->
             Call(PredictFnName(modelName), SliceLast(historicalData, 10), i)]

\* the forecaster invocations generatePredictions makes, in order
GenerateCalls(historicalData, daysToPredict, modelName) ==
    IF \/ Len(historicalData) < GenerateMin
       \/ PredictFnName(modelName) \in {"Object", "Object.prototype"}
    THEN <<>>
    ELSE IF generateThrows(historicalData, daysToPredict, modelName) # "none"
    THEN <<Call(PredictFnName(modelName), historicalData, 1)>>
    ELSE [i \in 1..daysToPredict |->
             Call(PredictFnName(modelName), historicalData, i)]

-----------------------------------------------------------------------------
(* Combine historical data with predictions *)

Null == [k |-> "null", v |-> 0]

\* the merge with the predicted close also copied into actual
combineActualCopied(historicalData, predictions) ==
    [i \in 1..Len(historicalData) |->
        [date |-> historicalData[i].date,
         close |-> Fin(historicalData[i].close * 100),
         actual |-> Fin(historicalData[i].close * 100),
         predicted |-> Null,
         predictedClose |-> Null,
         isPrediction |-> FALSE]]
    \o
    [i \in 1..Len(predictions) |->
        [date |-> predictions[i].date,
         close |-> predictions[i].predictedClose,
         actual |-> predictions[i].predictedClose,
         predicted |-> predictions[i].predictedClose,
         predictedClose |-> predictions[i].predictedClose,
         isPrediction |-> TRUE]]

\* closes are shown in hundredths like the predicted closes
combineDataWithPredictions(historicalData, predictions) ==
    [i \in 1..Len(historicalData) |->
        [date |-> historicalData[i].date,
         close |-> Fin(historicalData[i].close * 100),
         actual |-> Fin(historicalData[i].close * 100),
         predicted |-> Null,
         predictedClose |-> Null,
         isPrediction |-> FALSE]]
    \o
    [i \in 1..Len(predictions) |->
        [date |-> predictions[i].date,
         close |-> Null,
         actual |-> Null,
         predicted |-> predictions[i].predictedClose,
         predictedClose |-> predictions[i].predictedClose,
         isPrediction |-> TRUE]]

-----------------------------------------------------------------------------
(* Histories the operations are applied to: n points on consecutive        *)
(* calendar days ending on lastDay, with positive closes and volumes       *)

ModelNames == {"linearRegression", "arima", "randomForest", "lstm"}

Shapes == {"flat", "up", "down", "zigzag", "wave", "breakout", "dip", "accel"}

Wave == <<0, 2, 4, 2, 0, 0 - 2, 0 - 4, 0 - 2>>

\* close of point i of n; breakout and dip leave the flat level where the
\* backtest's validation slice starts
ShapeClose(shape, i, n) ==
    CASE shape = "flat" -> 100
      [] shape = "up" -> 100 - n + i
      [] shape = "down" -> 100 + n - i
      [] shape = "zigzag" -> 100 + 2 * (i % 2)
      [] shape = "wave" -> 100 + Wave[(i % 8) + 1]
      [] shape = "breakout" -> 100 + Max(0, i - ((n * 8) \div 10))
      [] shape = "dip" -> 100 - Max(0, i - ((n * 8) \div 10))
      [] shape = "accel" -> 100 + ((i * i) \div 20)

VolumeTrends == {"rising", "falling"}

ShapeVolume(trend, i) == IF trend = "rising" THEN 10 + i ELSE 50 - i

History(shape, trend, n, lastDay) ==
    [i \in 1..n |-> [date |-> lastDay - (n - i),
                     close |-> ShapeClose(shape, i, n),
                     volume |-> ShapeVolume(trend, i)]]

\* 2024-01-01, a Monday
BaseDay == 19723

\* a history whose closes are a + k i at index i = 0 .. n - 1
LinearHistory(a, k, n, lastDay) ==
    [i \in 1..n |-> [date |-> lastDay - (n - i),
                     close |-> a + k * (i - 1),
                     volume |-> ShapeVolume("rising", i)]]

\* slopes of the linear histories: falling, level, rising
Slopes == {0 - 2, 0 - 1, 0, 1, 3}

\* New York, UTC and India, none of them changing its offset in January
Timezones == {0 - 300, 0, 330}

\* strategy names a caller may pass, one of them unrecognized
RequestedNames == ModelNames \cup {"unknown"}

\* names the table inherits from Object.prototype
InheritedNames == {"__proto__", "constructor"}

\* every string a caller may pass as the strategy name
AnyNames == RequestedNames \cup InheritedNames

\* the history with a last date that is not a date
MalformedLast(h) ==
    IF Len(h) = 0 THEN h ELSE [h EXCEPT ![Len(h)].date = Malformed]

\* horizons a caller asks for: none, the first days, the windows the
\* application offers, and the largest
Horizons == {0, 1, 2, 3, 7, 14, MaxHorizon}

\* price arrays handed to the metric functions directly
PriceArrays ==
    UNION {[1..n -> {v * FP : v \in 1..MaxVal}] : n \in 0..MaxArr}

\* prediction sequences handed to combineDataWithPredictions by a caller
\* that did not get them from generatePredictions
ForeignPredictions ==
    UNION {[1..n -> [date : {BaseDay}, predictedClose : {Fin(12345), NaN},
                     confidence : {55}, isPrediction : {TRUE},
                     model : {"lstm"}]] : n \in 0..2}

-----------------------------------------------------------------------------
(* What a call leaves in the caller's array.  The functions reach the       *)
(* array through length, index reads, map with callbacks that only read,   *)
(* and slice; the arrays they push to are their own.                       *)

\* the receiver after splice(start, end - start), which removes the
\* elements it returns
SpliceReceiver(a, start, end) ==
    LET count == Max(0, Min(end, Len(a)) - start)
    IN  [i \in 1..(Len(a) - count) |->
            IF i <= start THEN a[i] ELSE a[i + count]]

\* the receiver after slice(start, end), which copies
SliceReceiver(a, start, end) == a

\* the receiver after map(d => ...) with a callback that reads d
MapReceiver(a) == a

\* a forecaster: data.map(d => d.close), data.map(d => d.volume)
historyAfterForecast(data) == MapReceiver(MapReceiver(data))

\* calculateAllModelMetrics: slice(0, splitIdx), slice(splitIdx), then the
\* forecasters on the training copy
historyAfterMetrics(historicalData) ==
    IF Len(historicalData) < BacktestMin THEN historicalData
    ELSE LET splitIdx == (Len(historicalData) * 8) \div 10
             afterTrain == SliceReceiver(historicalData, 0, splitIdx)
         IN  SliceReceiver(afterTrain, splitIdx, Len(afterTrain))

\* generatePredictions: hands the array itself to the forecaster
historyAfterGenerate(historicalData, daysToPredict, modelName) ==
    IF \/ Len(historicalData) < GenerateMin
       \/ daysToPredict < 1
       \/ PredictFnName(modelName) \in {"Object", "Object.prototype"}
    THEN historicalData
    ELSE historyAfterForecast(historicalData)

\* combineDataWithPredictions: historicalData.map(d => ({ ... }))
historyAfterCombine(historicalData) == MapReceiver(historicalData)

-----------------------------------------------------------------------------
(* State machine: the last call and what it returned *)

NoArg == [none |-> TRUE]

NoMetrics == [linearRegression |-> emptyMetrics, arima |-> emptyMetrics,
              randomForest |-> emptyMetrics, lstm |-> emptyMetrics,
              bestModel |-> "none"]

NoCall == [op |-> "none"]

\* rawData and liveData are null or an array
NoData == [k |-> "null", v |-> <<>>]

Data(array) == [k |-> "data", v |-> array]

\* the page after its first render: the first company, no data, 'lstm';
\* fetching is the model selected in the render that started the request
\* in flight, handlerModel the model the last run of handleDataFetched
\* used, last the last step taken
InitialPage ==
    [selectedCompany |-> 0, rawData |-> NoData, liveData |-> NoData,
     selectedModel |-> "lstm", effect |-> FALSE, fetching |-> "none",
     handlerModel |-> "none", last |-> "none"]

Idle ==
    /\ kept = NoCall
    /\ op = "none"
    /\ arg = NoArg
    /\ preds = <<>>
    /\ metrics = NoMetrics
    /\ combined = <<>>
    /\ price = Fin(0)
    /\ ev = emptyMetrics
    /\ calls = <<>>
    /\ thrown = "none"
    /\ probe = NoInternals
    /\ page = InitialPage

\* a forecaster is called on the history
Forecast(fn, daysAhead, r) ==
    /\ op = "none"
    /\ op' = "forecast"
    /\ arg' = [fn |-> fn, daysAhead |-> daysAhead, r |-> r]
    /\ price' = predictFn(fn, hist, daysAhead, r)
    /\ calls' = <<Call(fn, hist, daysAhead)>>
    /\ preds' = <<>>
    /\ metrics' = NoMetrics
    /\ combined' = <<>>
    /\ ev' = emptyMetrics
    /\ thrown' = "none"
    /\ probe' = Internals(fn, hist, daysAhead)
    /\ page' = page
    /\ hist' = historyAfterForecast(hist)
    /\ UNCHANGED <<tz, kept>>

\* generatePredictions is called on the history
Generate(daysToPredict, modelName, tape) ==
    /\ op = "none"
    /\ op' = "generate"
    /\ arg' = [daysToPredict |-> daysToPredict, modelName |-> modelName,
               tape |-> tape]
    /\ thrown' = generateThrows(hist, daysToPredict, modelName)
    /\ probe' = NoInternals
    /\ page' = page
    /\ preds' = IF thrown' = "none"
                THEN generatePredictions(hist, daysToPredict, modelName,
                                         tape, tz)
                ELSE <<>>
    /\ calls' = GenerateCalls(hist, daysToPredict, modelName)
    /\ metrics' = NoMetrics
    /\ combined' = <<>>
    /\ price' = Fin(0)
    /\ ev' = emptyMetrics
    /\ hist' = historyAfterGenerate(hist, daysToPredict, modelName)
    /\ UNCHANGED <<tz, kept>>

\* calculateAllModelMetrics is called on the history
Backtest(tape) ==
    /\ op = "none"
    /\ op' = "metrics"
    /\ arg' = [tape |-> tape]
    /\ metrics' = calculateAllModelMetrics(hist, tape)
    /\ calls' = MetricsCalls(hist)
    /\ preds' = <<>>
    /\ combined' = <<>>
    /\ price' = Fin(0)
    /\ ev' = emptyMetrics
    /\ thrown' = "none"
    /\ probe' = NoInternals
    /\ page' = page
    /\ hist' = historyAfterMetrics(hist)
    /\ UNCHANGED <<tz, kept>>

\* combineDataWithPredictions is called on the history and a prediction
\* sequence
Combine(predictions) ==
    /\ op \in {"none", "generate"}
    /\ thrown = "none"
    /\ op' = "combine"
    /\ arg' = [predictions |-> predictions]
    /\ combined' = combineDataWithPredictions(hist, predictions)
    /\ calls' = <<>>
    /\ preds' = <<>>
    /\ metrics' = NoMetrics
    /\ price' = Fin(0)
    /\ ev' = emptyMetrics
    /\ thrown' = "none"
    /\ probe' = NoInternals
    /\ page' = page
    /\ hist' = historyAfterCombine(hist)
    /\ UNCHANGED <<tz, kept>>

\* the four metric functions are called on a pair of arrays
Evaluate(actual, predicted) ==
    /\ op = "none"
    /\ op' = "evaluate"
    /\ arg' = [actual |-> actual, predicted |-> predicted]
    /\ ev' = ModelMetrics(actual, predicted)
    /\ calls' = <<>>
    /\ preds' = <<>>
    /\ metrics' = NoMetrics
    /\ combined' = <<>>
    /\ price' = Fin(0)
    /\ thrown' = "none"
    /\ probe' = NoInternals
    /\ page' = page
    /\ UNCHANGED <<hist, tz, kept>>

\* the caller is done with the returned value
Return ==
    /\ op # "none"
    /\ op' = "none"
    /\ arg' = NoArg
    /\ preds' = <<>>
    /\ metrics' = NoMetrics
    /\ combined' = <<>>
    /\ price' = Fin(0)
    /\ ev' = emptyMetrics
    /\ calls' = <<>>
    /\ thrown' = "none"
    /\ probe' = NoInternals
    /\ page' = page
    /\ UNCHANGED <<hist, tz, kept>>

\* the inputs the caller passed to the last operation
InputsOf ==
    CASE op = "forecast" -> <<arg.fn, arg.daysAhead>>
      [] op = "generate" -> <<arg.daysToPredict, arg.modelName>>
      [] op = "evaluate" -> <<arg.actual, arg.predicted>>
      [] op = "combine" -> <<arg.predictions>>
      [] OTHER -> <<>>

\* what Math.random() returned during the last operation
DrawnBy ==
    CASE op = "forecast" -> <<arg.r>>
      [] op \in {"generate", "metrics"} -> arg.tape
      [] OTHER -> <<>>

\* the value the last operation returned
ResultOf ==
    CASE op = "forecast" -> price
      [] op = "generate" -> preds
      [] op = "metrics" -> metrics
      [] op = "combine" -> combined
      [] op = "evaluate" -> ev

\* the caller keeps the returned value to compare it with a later call
Remember ==
    /\ op # "none"
    /\ thrown = "none"
    /\ kept' = [op |-> op, inputs |-> InputsOf, drawn |-> DrawnBy,
                result |-> ResultOf]
    /\ op' = "none"
    /\ arg' = NoArg
    /\ preds' = <<>>
    /\ metrics' = NoMetrics
    /\ combined' = <<>>
    /\ price' = Fin(0)
    /\ ev' = emptyMetrics
    /\ calls' = <<>>
    /\ thrown' = "none"
    /\ probe' = NoInternals
    /\ page' = page
    /\ UNCHANGED <<hist, tz>>

\* histories of other prices, volumes and lengths that end on lastDay
DatedHistories(lastDay) ==
    {History(sh, tr, n, lastDay) :
        sh \in {"wave", "up"}, tr \in VolumeTrends, n \in {GenerateMin, MaxLen}}

\* the page receives other data ending on the same day
Refetch ==
    /\ op = "none"
    /\ Len(hist) > 0
    /\ hist' \in DatedHistories(hist[Len(hist)].date) \ {hist}
    /\ UNCHANGED <<tz, op, arg, preds, metrics, combined, price, ev, calls,
                   thrown, probe, page, kept>>

-----------------------------------------------------------------------------
(* The Index page.  A handler runs with the state of the render that       *)
(* created it; after the render that follows, the effect is pending when   *)
(* one of its dependencies changed, and React runs a pending effect        *)
(* before it processes another update.                                     *)

\* generatePredictions(data, 7, selectedModel)
PredictionDays == 7

\* the effect depending on the model alone
EffectDepsModelOnly == {"selectedModel"}

\* }, [selectedModel, rawData]);
EffectDeps == {"selectedModel", "rawData"}

EffectFires(changed) == changed \cap EffectDeps # {}

\* what both the handler and the effect hand to setLiveData
LiveDataOf(data, model, tape, zone) ==
    Data(combineDataWithPredictions(data,
             generatePredictions(data, PredictionDays, model, tape, zone)))

\* histories the backend returns: too short for predictions, just long
\* enough, and the longest
FetchedData ==
    {History("wave", "rising", 9, BaseDay),
     History("wave", "rising", 16, BaseDay),
     History("up", "rising", MaxLen, BaseDay)}

LibraryVars ==
    <<hist, tz, op, arg, preds, metrics, combined, price, ev, calls, thrown,
      probe, kept>>

\* DateRangeSelector.handleFetchData up to its await: the button is
\* disabled while isLoading, and the request keeps the handleDataFetched
\* of the render in which it was started
StartFetch ==
    /\ ~page.effect
    /\ page.fetching = "none"
    /\ page' = [page EXCEPT !.fetching = page.selectedModel,
                            !.last = "fetch"]
    /\ UNCHANGED LibraryVars

\* the request ends without data: an error, a rate limit, an empty range
FetchFailed ==
    /\ ~page.effect
    /\ page.fetching # "none"
    /\ page' = [page EXCEPT !.fetching = "none", !.last = "failed"]
    /\ UNCHANGED LibraryVars

\* handleDataFetched, called with a new non-empty array
DataFetched(data, tape) ==
    /\ ~page.effect
    /\ page.fetching # "none"
    /\ page' = [page EXCEPT
                   !.rawData = Data(data),
                   !.liveData = LiveDataOf(data, page.fetching, tape, tz),
                   !.effect = EffectFires({"rawData"}),
                   !.fetching = "none",
                   !.handlerModel = page.fetching,
                   !.last = "fetched"]
    /\ UNCHANGED LibraryVars

\* onValueChange = setSelectedModel, with another model
ModelChanged(model) ==
    /\ ~page.effect
    /\ model # page.selectedModel
    /\ page' = [page EXCEPT
                   !.selectedModel = model,
                   !.effect = EffectFires({"selectedModel"}),
                   !.last = "model"]
    /\ UNCHANGED LibraryVars

\* handleCompanySelect
CompanySelected(company) ==
    /\ ~page.effect
    /\ page' = [page EXCEPT
                   !.selectedCompany = company,
                   !.liveData = NoData,
                   !.rawData = NoData,
                   !.effect = (page.rawData # NoData
                                 /\ EffectFires({"rawData"})),
                   !.last = "company"]
    /\ UNCHANGED LibraryVars

\* the effect: if (rawData && rawData.length > 0) setLiveData(...)
RunEffect(tape) ==
    /\ page.effect
    /\ page' = [page EXCEPT
                   !.liveData =
                       IF page.rawData.k = "data" /\ Len(page.rawData.v) > 0
                       THEN LiveDataOf(page.rawData.v, page.selectedModel,
                                       tape, tz)
                       ELSE page.liveData,
                   !.effect = FALSE,
                   !.last = "effect"]
    /\ UNCHANGED LibraryVars

\* the random draws a call makes: the trend and differenced-AR forecasters
\* draw, the other two do not
DrawsOf(fn) ==
    IF fn \in {"linearRegression", "arima"} THEN RandomValues ELSE {0}

TapesOf(modelName) ==
    IF modelName \in {"linearRegression", "arima"}
    THEN {t \in Tapes : t[1] # 0} ELSE {[j \in 1..2 |-> 0]}

ForecastStep ==
    \E fn \in ModelNames, daysAhead \in 1..MaxHorizon :
        \E r \in DrawsOf(fn) : Forecast(fn, daysAhead, r)

GenerateStep ==
    \E daysToPredict \in Horizons, modelName \in RequestedNames :
        \E tape \in TapesOf(modelName) :
            Generate(daysToPredict, modelName, tape)

GenerateAnyStep ==
    \E daysToPredict \in Horizons, modelName \in AnyNames :
        \E tape \in TapesOf(modelName) :
            Generate(daysToPredict, modelName, tape)

\* the random source in three of its states: every draw low, middle, high
RepeatTapes == {[j \in 1..2 |-> r] : r \in RandomValues}

\* a few arrays for calls that are made twice
FewArrays ==
    {<<>>, <<1 * FP, 2 * FP>>, <<2 * FP, 1 * FP>>, <<1 * FP, 3 * FP, 2 * FP>>}

\* calls made while Math.random() is in any state, whether the forecaster
\* draws from it or not
ForecastRepeatStep ==
    \E fn \in ModelNames, daysAhead \in Horizons \ {0}, r \in RandomValues :
        Forecast(fn, daysAhead, r)

GenerateRepeatStep ==
    \E daysToPredict \in Horizons, modelName \in RequestedNames :
        \E tape \in RepeatTapes : Generate(daysToPredict, modelName, tape)

EvaluateRepeatStep ==
    \E actual \in FewArrays, predicted \in FewArrays :
        Evaluate(actual, predicted)

\* the page's horizon and a shorter one, for a drawing strategy, a
\* deterministic one and an unrecognized name
GenerateDatesStep ==
    \E daysToPredict \in {3, 7}, modelName \in {"arima", "lstm", "unknown"} :
        \E tape \in TapesOf(modelName) :
            Generate(daysToPredict, modelName, tape)

\* the page's events and its effect
PageStep ==
    \/ StartFetch
    \/ FetchFailed
    \/ \E data \in FetchedData :
           \E tape \in TapesOf(page.fetching) : DataFetched(data, tape)
    \/ \E model \in ModelNames : ModelChanged(model)
    \/ \E company \in 0..1 : CompanySelected(company)
    \/ \E tape \in TapesOf(page.selectedModel) : RunEffect(tape)

\* the trend forecaster alone
TrendStep ==
    \E daysAhead \in 1..MaxHorizon, r \in RandomValues :
        Forecast("linearRegression", daysAhead, r)

BacktestStep == \E tape \in Tapes : Backtest(tape)

CombineStep ==
    \E predictions \in {preds} \cup ForeignPredictions : Combine(predictions)

\* the page's use: the predictions just generated are combined with the
\* history they were generated from
CombineGeneratedStep == op = "generate" /\ Combine(preds)

EvaluateStep ==
    \E actual \in PriceArrays, predicted \in PriceArrays :
        Evaluate(actual, predicted)

\* every shape, volume trend and length, ending on BaseDay, in UTC
InitForecast ==
    /\ hist \in {History(sh, tr, n, BaseDay) :
                    sh \in Shapes, tr \in VolumeTrends, n \in 0..MaxLen}
    /\ tz = 0
    /\ Idle

\* every length and every day of the week as the last day, in every zone
\* linear histories of every length from the trend forecaster's minimum,
\* and of 30 points, the series 100, 101, ..., 129 among them
InitTrend ==
    /\ hist \in {LinearHistory(100, k, n, BaseDay) :
                    k \in Slopes, n \in (LinearRegressionMin..MaxLen) \cup {30}}
    /\ tz = 0
    /\ Idle

InitGenerate ==
    /\ hist \in {History(sh, "rising", n, BaseDay + wd) :
                    sh \in {"wave"}, n \in 0..MaxLen, wd \in 0..6}
    /\ tz \in Timezones
    /\ Idle

\* histories ending on every day of the week, in every zone
InitDates ==
    /\ hist \in UNION {DatedHistories(BaseDay + wd) : wd \in 0..6}
    /\ tz \in Timezones
    /\ Idle

\* the page before any data was fetched
InitPage ==
    /\ hist = <<>>
    /\ tz \in Timezones
    /\ Idle

InitCombine ==
    /\ hist \in {History("wave", "rising", n, BaseDay) : n \in 0..MaxLen}
    /\ tz = 0
    /\ Idle

InitEvaluate ==
    /\ hist = <<>>
    /\ tz = 0
    /\ Idle

\* every length, with a well-formed and with a malformed last date
InitAny ==
    /\ hist \in {History("wave", "rising", n, BaseDay) : n \in 0..MaxLen}
               \cup {MalformedLast(History("wave", "rising", n, BaseDay)) :
                        n \in 0..MaxLen}
    /\ tz = 0
    /\ Idle

\* histories below ARIMA's minimum, just above every minimum, and longest
InitRepeat ==
    /\ hist \in {History("wave", "rising", n, BaseDay) : n \in {9, 16, MaxLen}}
    /\ tz = 0
    /\ Idle

Init == InitCombine

Next ==
    \/ ForecastStep
    \/ GenerateStep
    \/ GenerateAnyStep
    \/ BacktestStep
    \/ CombineStep
    \/ EvaluateStep
    \/ ForecastRepeatStep
    \/ GenerateRepeatStep
    \/ EvaluateRepeatStep
    \/ Refetch
    \/ PageStep
    \/ Remember
    \/ Return

Spec == Init /\ [][Next]_vars

SpecForecast == InitForecast /\ [][ForecastStep \/ Return]_vars

SpecTrend == InitTrend /\ [][TrendStep \/ Return]_vars

SpecGenerate == InitGenerate /\ [][GenerateStep \/ Return]_vars

SpecBacktest == InitForecast /\ [][BacktestStep \/ Return]_vars

SpecCombine == InitCombine /\ [][GenerateStep \/ CombineStep \/ Return]_vars

SpecChrono ==
    InitGenerate /\ [][GenerateStep \/ CombineGeneratedStep \/ Return]_vars

SpecDates ==
    InitDates /\ [][GenerateDatesStep \/ Refetch \/ Remember \/ Return]_vars

SpecPage == InitPage /\ [][PageStep]_vars

SpecEvaluate == InitEvaluate /\ [][EvaluateStep \/ Return]_vars

SpecFrame ==
    InitCombine /\ [][ForecastStep \/ GenerateAnyStep \/ BacktestStep
                         \/ CombineStep \/ Return]_vars

SpecRepeat ==
    InitRepeat /\ [][ForecastRepeatStep \/ GenerateRepeatStep
                        \/ EvaluateRepeatStep \/ Remember \/ Return]_vars

SpecAny ==
    InitAny /\ [][GenerateAnyStep \/ BacktestStep \/ CombineStep \/ Return]_vars

-----------------------------------------------------------------------------
(* Properties *)

IsWeekend(day) == DayOfWeek(day) = 0 \/ DayOfWeek(day) = 6

LastClose == IF Len(hist) = 0 THEN 0 ELSE hist[Len(hist)].close * FP

C2_NoWeekend ==
    op = "generate" =>
        \A i \in 1..Len(preds) : ~IsWeekend(preds[i].date)

\* C3: confidences never increase with the day offset and all lie in
\* [0.55, 0.95].
C3_Confidence ==
    op = "generate" =>
        \A i \in 1..Len(preds) :
            /\ preds[i].confidence >= 55
            /\ preds[i].confidence <= 95
            /\ i < Len(preds) =>
                   preds[i + 1].confidence <= preds[i].confidence

C3_Witness ==
    /\ op = "generate"
    /\ arg.modelName = "lstm"
    /\ Len(preds) = 14
    /\ preds[1].confidence = 87
    /\ preds[7].confidence = 57
    /\ preds[8].confidence = 55
    /\ preds[14].confidence = 55

\* the minimum history length the claim gives for each forecaster
ClaimedMinimum(fn) ==
    CASE fn = "linearRegression" -> 5
      [] fn = "arima" -> 10
      [] fn = "randomForest" -> 15
      [] fn = "lstm" -> 15

\* C4: a forecaster called with a history shorter than its minimum returns
\* exactly the close of the last point, and 0 for the empty history,
\* whatever daysAhead and whatever the random source yields.
C4_ShortHistory ==
    (op = "forecast" /\ Len(hist) < ClaimedMinimum(arg.fn)) =>
        price = Fin(LastClose)

C4_Witness ==
    /\ op = "forecast"
    /\ arg.fn = "arima"
    /\ arg.r = 49
    /\ arg.daysAhead = 7
    /\ Len(hist) = 9
    /\ hist[9].close # hist[8].close
    /\ price = Fin(hist[9].close * FP)

ModelOrder == <<"linearRegression", "arima", "randomForest", "lstm">>

R2Of(m, i) == m[ModelOrder[i]].r2

\* positions in ModelOrder of the strategies with the maximum R2
MaxR2Positions(m) ==
    {i \in 1..4 : \A j \in 1..4 : R2Of(m, i) >= R2Of(m, j)}

LeastOf(S) == CHOOSE i \in S : \A j \in S : i <= j

GreatestOf(S) == CHOOSE i \in S : \A j \in S : i >= j

\* C5 as stated: on at least 20 points bestModel is the strategy with the
\* maximum R2, the first in the order linearRegression, arima,
\* randomForest, lstm when several share the maximum.
C5_FirstOnTie ==
    (op = "metrics" /\ Len(hist) >= 20) =>
        metrics.bestModel = ModelOrder[LeastOf(MaxR2Positions(metrics))]

\* C5 amended: on at least 20 points bestModel is the strategy with the
\* maximum R2, the last in the order linearRegression, arima, randomForest,
\* lstm when several share the maximum.
C5_LastOnTie ==
    (op = "metrics" /\ Len(hist) >= 20) =>
        metrics.bestModel = ModelOrder[GreatestOf(MaxR2Positions(metrics))]

C5_Witness ==
    /\ op = "metrics"
    /\ Len(hist) >= 20
    /\ MaxR2Positions(metrics) = {1, 2, 3}
    /\ metrics.bestModel = "randomForest"

\* C6: bestModel is always one of linearRegression, arima, randomForest,
\* lstm, for every history length and whatever the four R2 values.
C6_BestModelNamed ==
    op = "metrics" =>
        metrics.bestModel \in
            {"linearRegression", "arima", "randomForest", "lstm"}

C6_Witness ==
    /\ op = "metrics"
    /\ Len(hist) >= 20
    /\ metrics.bestModel = "arima"
    /\ metrics.arima.r2 > metrics.lstm.r2

\* C7: on fewer than 20 points calculateAllModelMetrics returns mse = r2 =
\* mae = accuracy = 0 for each strategy and bestModel = "lstm", and invokes
\* no forecaster.
C7_ThinData ==
    (op = "metrics" /\ Len(hist) < 20) =>
        /\ \A i \in 1..4 :
               metrics[ModelOrder[i]] =
                   [mse |-> 0, r2 |-> 0, mae |-> 0, accuracy |-> 0]
        /\ metrics.bestModel = "lstm"
        /\ calls = <<>>

C7_Witness ==
    /\ op = "metrics"
    /\ Len(hist) = 19
    /\ hist[19].close # hist[1].close
    /\ metrics.lstm.mse = 0
    /\ metrics.linearRegression.accuracy = 0
    /\ calls = <<>>

NonNull(x) == x.k # "null"

\* C8: combineDataWithPredictions returns historical.length +
\* predictions.length records; the first historical.length have actual
\* non-null and predicted null, the rest predicted non-null and actual null.
C8_Combine ==
    op = "combine" =>
        /\ Len(combined) = Len(hist) + Len(arg.predictions)
        /\ \A i \in 1..Len(combined) :
               /\ NonNull(combined[i].actual) # NonNull(combined[i].predicted)
               /\ NonNull(combined[i].actual) = (i <= Len(hist))

C8_Witness ==
    /\ op = "combine"
    /\ Len(hist) = 16
    /\ Len(arg.predictions) = 7
    /\ Len(combined) = 23
    /\ combined[16].actual = Fin(hist[16].close * 100)
    /\ combined[17].predicted = arg.predictions[1].predictedClose
    /\ combined[17].actual = Null

AllEqual(xs) == \A i \in 1..Len(xs) : xs[i] = xs[1]

\* C9 as stated: on identical actual and predicted arrays MSE = 0, MAE = 0
\* and R2 = 1, for every array of prices.
C9_Identical ==
    (op = "evaluate" /\ arg.actual = arg.predicted) =>
        (ev.mse = 0 /\ ev.mae = 0 /\ ev.r2 = 10000)

\* C9 amended: on identical actual and predicted arrays of positive prices
\* MSE = 0 and MAE = 0, and R2 = 1 when the array holds two different
\* prices; when all its prices are equal, or it is empty, R2 = 0.
C9_IdenticalVarying ==
    (op = "evaluate" /\ arg.actual = arg.predicted) =>
        /\ ev.mse = 0
        /\ ev.mae = 0
        /\ ev.r2 = (IF AllEqual(arg.actual) THEN 0 ELSE 10000)

C9_Witness ==
    /\ op = "evaluate"
    /\ arg.actual = arg.predicted
    /\ Len(arg.actual) = 3
    /\ ~AllEqual(arg.actual)
    /\ ev.r2 = 10000
    /\ ev.mse = 0

\* C10: when the actual and predicted arrays differ in length, or are
\* empty, MSE, R2, MAE and the directional accuracy are all 0.
C10_Mismatch ==
    (op = "evaluate"
        /\ (Len(arg.actual) # Len(arg.predicted) \/ Len(arg.actual) = 0)) =>
        ev = [mse |-> 0, r2 |-> 0, mae |-> 0, accuracy |-> 0]

\* C11: a forecaster called with a history that meets its minimum length
\* returns a price of at least 0.70 times the last close, for every
\* daysAhead >= 1.
C11_FloorClamp ==
    (op = "forecast" /\ Len(hist) >= ClaimedMinimum(arg.fn)) =>
        \/ price.k = "fin" /\ price.v * 100 >= 70 * LastClose
        \/ price.k = "inf" /\ price.v = 1

\* C12: generatePredictions, calculateAllModelMetrics and
\* combineDataWithPredictions never throw, for every history (malformed
\* dates included), every horizon and every strategy-name string.
C12_NeverThrows == thrown = "none"

\* C13: for every strategy name that is not one of the four, every price
\* generatePredictions returns is the one predictLSTM computes, i.e. the
\* price returned for the name "lstm" on the same history.
C13_FallbackLSTM ==
    (op = "generate" /\ arg.modelName \notin ModelNames) =>
        /\ thrown = "none"
        /\ \A i \in 1..Len(preds) :
               preds[i].predictedClose = Round2(predictLSTM(hist, i))

\* C14: generatePredictions, calculateAllModelMetrics,
\* combineDataWithPredictions and every forecaster leave the caller's
\* historical sequence as it was: same length, order and field values.
C14_HistoryKept == [][hist' = hist]_vars

C14_Witness ==
    /\ op = "metrics"
    /\ Len(hist) = 20
    /\ Len(calls) = 16
    /\ calls[1].len = 16
    /\ hist[1].date = BaseDay - 19

\* the base confidence the claim gives for each name, in hundredths
ClaimedBase(name) ==
    CASE name = "lstm" -> 92
      [] name = "randomForest" -> 88
      [] name = "arima" -> 85
      [] OTHER -> 82

\* C15: the confidence at day offset i is max(0.55, base - 0.05 i), with
\* base 0.92 for lstm, 0.88 for randomForest, 0.85 for arima and 0.82 for
\* linearRegression and for every other name, unrecognized names included.
C15_ConfidenceFormula ==
    op = "generate" =>
        \A i \in 1..Len(preds) :
            preds[i].confidence =
                (IF ClaimedBase(arg.modelName) - 5 * i > 55
                 THEN ClaimedBase(arg.modelName) - 5 * i ELSE 55)

C15_Witness ==
    /\ op = "generate"
    /\ arg.modelName = "unknown"
    /\ calls # <<>> /\ calls[1].fn = "lstm"
    /\ Len(preds) = 14
    /\ preds[1].confidence = 77
    /\ preds[5].confidence = 57
    /\ preds[6].confidence = 55

\* the first day on or after a calendar day that is not a Saturday or a
\* Sunday
FirstWeekday(day) ==
    IF DayOfWeek(day) = 6 THEN day + 2
    ELSE IF DayOfWeek(day) = 0 THEN day + 1
    ELSE day

\* C16: the date at day offset i is the first non-weekend day on or after
\* the last historical date plus i calendar days, computed from the last
\* historical date for each i on its own.
C16_DatePolicy ==
    (op = "generate" /\ thrown = "none") =>
        \A i \in 1..Len(preds) :
            preds[i].date = FirstWeekday(hist[Len(hist)].date + i)

\* the last call repeats the kept one: same operation, same inputs
Repeats == op # "none" /\ kept.op = op /\ kept.inputs = InputsOf

\* C17: two calls of the trend or the differenced-AR forecaster with the
\* same history, the same daysAhead and the same seed return the same
\* price.  The forecasters take no seed, so any two calls have the same.
C17_Reproducible ==
    (Repeats /\ op = "forecast"
        /\ arg.fn \in {"linearRegression", "arima"}) =>
        price = kept.result

\* C18: the ensemble-tree forecaster, the sequence-memory forecaster and the
\* metric functions return equal results on equal inputs whatever the
\* random source yields, and so does generatePredictions with the name
\* randomForest or lstm.
C18_Deterministic ==
    (Repeats
        /\ \/ op = "forecast" /\ arg.fn \in {"randomForest", "lstm"}
           \/ op = "generate" /\ arg.modelName \in {"randomForest", "lstm"}
           \/ op = "evaluate") =>
        ResultOf = kept.result

C18_Witness ==
    /\ Repeats
    /\ op = "generate"
    /\ arg.modelName = "randomForest"
    /\ kept.drawn # DrawnBy
    /\ Len(preds) = 7
    /\ preds[7].predictedClose # preds[1].predictedClose
    /\ preds = kept.result

\* C19: for n >= 20 points the history is split at floor(0.8 n); every
\* strategy is invoked once per validation point, with the whole training
\* prefix and daysAhead = 1, 2, ..., so no call receives a validation point
\* and each predicted series is as long as the validation slice.
C19_Split ==
    (op = "metrics" /\ Len(hist) >= 20) =>
        LET splitIdx == (Len(hist) * 8) \div 10
            k == Len(hist) - splitIdx
        IN  /\ Len(calls) = 4 * k
            /\ \A j \in 1..Len(calls) :
                   /\ calls[j].fn = ModelOrder[((j - 1) \div k) + 1]
                   /\ calls[j].daysAhead = ((j - 1) % k) + 1
                   /\ calls[j].dates =
                          [i \in 1..splitIdx |-> hist[i].date]

C19_Witness ==
    /\ op = "metrics"
    /\ Len(hist) = 21
    /\ Len(calls) = 20
    /\ calls[20].fn = "lstm"
    /\ calls[20].daysAhead = 5
    /\ Len(calls[20].dates) = 16
    /\ metrics.lstm.mse > 0

\* sign with its three values
Sign(x) == IF x > 0 THEN 1 ELSE IF x < 0 THEN 0 - 1 ELSE 0

\* the adjacent steps on which two series move the same way, a flat step
\* matching only a flat step
SignHits(actual, predicted) ==
    Cardinality({i \in 2..Len(actual) :
        Sign(actual[i] - actual[i - 1]) =
            Sign(predicted[i] - predicted[i - 1])})

\* C20: for equal-length series of at least 2 points the directional
\* accuracy is 100 times the share of adjacent steps on which the signs
\* (positive, zero, negative) of the two changes are equal; it is 0 for
\* fewer than 2 points and always lies in [0, 100].
C20_SignAccuracy ==
    (op = "evaluate" /\ Len(arg.actual) = Len(arg.predicted)) =>
        /\ ev.accuracy >= 0 /\ ev.accuracy <= 10000
        /\ ev.accuracy =
               (IF Len(arg.actual) < 2 THEN 0
                ELSE (SignHits(arg.actual, arg.predicted) * 10000)
                         \div (Len(arg.actual) - 1))

\* the steps of the 14-step RSI lookback on which the close fell
DownDays(closes) ==
    {t \in 1..14 : RSIChanges(closes)[t] < 0}

\* C21: in predictLSTM's 14-step RSI lookback, whenever no step is a down
\* day the average loss dividing the average gain is 0.001, so the ratio
\* is never computed with a zero denominator.
C21_AvgLossFallback ==
    (op = "forecast" /\ arg.fn = "lstm" /\ Len(hist) >= LSTMMin
        /\ DownDays(Closes(hist)) = {}) =>
        /\ probe.avgLoss.num # 0
        /\ probe.avgLoss.num * 1000 = probe.avgLoss.den

\* C22 as claimed: every candidate window predictLSTM scans starts early
\* enough for a look-ahead of daysAhead + 5 points, so the close read at
\* the forecast horizon after the matched window is the point of the
\* history at exactly that offset.
C22_LookAhead ==
    (op = "forecast" /\ arg.fn = "lstm" /\ Len(hist) >= LSTMMin) =>
        /\ \A i \in probe.scanned :
               i + lookback + arg.daysAhead - 1 <= Len(hist) - 1
        /\ probe.futureIdx = probe.bestMatch + lookback + arg.daysAhead - 1

\* C22 as the code has it: the candidate windows start at the indices
\* 5 .. n - 11 whatever daysAhead is; the close read after the matched
\* window is a point of the history, at offset 4 + daysAhead from the
\* window's start when that is on or before the last close (as it always
\* is for daysAhead <= 6 once a window was scanned), and the last close
\* otherwise.
C22_ClampedLookAhead ==
    (op = "forecast" /\ arg.fn = "lstm" /\ Len(hist) >= LSTMMin) =>
        LET n == Len(hist)
            target == probe.bestMatch + 4 + arg.daysAhead
        IN  /\ probe.scanned = {i \in 0..(n - 1) : i >= 5 /\ i <= n - 11}
            /\ probe.bestMatch \in probe.scanned \cup {0}
            /\ probe.futureIdx \in 0..(n - 1)
            /\ probe.futureIdx = (IF target <= n - 1 THEN target ELSE n - 1)
            /\ (arg.daysAhead <= 6 /\ probe.scanned # {}) =>
                   probe.futureIdx = target

\* a 7-day look-ahead from a scanned window that runs past the last close
C22_Witness ==
    /\ op = "forecast" /\ arg.fn = "lstm" /\ arg.daysAhead = 7
    /\ probe.scanned # {}
    /\ probe.bestMatch + 4 + 7 > Len(hist) - 1
    /\ probe.futureIdx = Len(hist) - 1

\* closes that are a + k i for some a and k
IsLinear(closes) ==
    \A i \in 2..Len(closes) :
        closes[i] - closes[i - 1] = closes[2] - closes[1]

\* C23: for n >= 5 closes that are exactly a + k i the least-squares
\* extrapolation of predictLinearRegression before noise is
\* a + k (n + daysAhead - 1); for 100, 101, ..., 129 and daysAhead = 1 it
\* is 130 and the returned value is within 0.1 x (stdDev / mean of the
\* last 20 closes) x last close of it, as is every returned value that
\* the 0.7 x last close floor cannot have replaced.
C23_TrendExtrapolation ==
    (op = "forecast" /\ arg.fn = "linearRegression"
        /\ Len(hist) >= 5 /\ IsLinear(Closes(hist))) =>
        LET closes == Closes(hist)
            n == Len(closes)
            a == closes[1]
            k == closes[2] - closes[1]
            target == (a + k * (n + arg.daysAhead - 1)) * FP
            floor == (closes[n] * FP * 7) \div 10
        IN  /\ probe.prediction = target
            /\ (n = 30 /\ a = 100 /\ k = 1 /\ arg.daysAhead = 1) =>
                   /\ target = 130 * FP
                   /\ price.k = "fin"
                   /\ Abs(price.v - target) <= probe.band
            /\ target - probe.band >= floor =>
                   price.k = "fin" /\ Abs(price.v - target) <= probe.band

\* the series 100 .. 129 extrapolated one day ahead, with noise drawn
C23_Witness ==
    /\ op = "forecast" /\ arg.fn = "linearRegression" /\ arg.daysAhead = 1
    /\ Len(hist) = 30 /\ hist[1].close = 100 /\ hist[30].close = 129
    /\ probe.prediction = 130 * FP
    /\ probe.band > 0
    /\ price.v < 130 * FP

\* C24: in predictRandomForest the amount the volatility-breakout tree
\* adds to the last close has the sign of the 5-day trend
\* closes[n - 1] - closes[n - 5]: positive when it is up, negative when it
\* is down, zero when it is flat.
C24_BreakoutSign ==
    (op = "forecast" /\ arg.fn = "randomForest"
        /\ Len(hist) >= RandomForestMin) =>
        LET closes == Closes(hist)
            n == Len(closes)
        IN  Sign(probe.breakout) = Sign(closes[n] - closes[n - 4])

C26_ScanNotEmpty ==
    (op = "forecast" /\ arg.fn = "lstm" /\ Len(hist) >= LSTMMin) =>
        /\ probe.scanned # {}
        /\ price.k = "fin"

\* C27: neither entry point invokes a forecaster with a history below
\* that forecaster's minimum: generatePredictions calls the chosen
\* strategy only with the full history of at least 15 points,
\* calculateAllModelMetrics (n >= 20) calls the four strategies only with
\* the training prefix of floor(0.8 n) >= 16 points.
C27_NoShortCalls ==
    \A j \in 1..Len(calls) :
        /\ calls[j].fn \in ModelNames
        /\ calls[j].len >= ClaimedMinimum(calls[j].fn)
        /\ op = "generate" =>
               calls[j].len = Len(hist) /\ calls[j].len >= 15
        /\ op = "metrics" =>
               /\ Len(hist) >= 20
               /\ calls[j].len = (Len(hist) * 8) \div 10
               /\ calls[j].len >= 16

\* the shortest history generatePredictions accepts, handed on whole
C27_Witness ==
    /\ op = "generate" /\ arg.modelName = "randomForest"
    /\ Len(hist) = 15
    /\ Len(calls) = 7
    /\ \A j \in 1..7 : calls[j].fn = "randomForest" /\ calls[j].len = 15

\* C28: every array read in the four forecasters is within bounds whenever
\* the forecaster's minimum length is met and daysAhead >= 1: closes[n - 11]
\* and closes[n - 6] in the ensemble, closes[i - 1] from i = n - 14 in the
\* RSI loop, closes[bestMatch + 4] and closes[futureIdx] in the pattern
\* match (also with no window scanned and bestMatch = 0), and the last two
\* first differences in predictARIMA.
C28_ReadsInBounds ==
    (op = "forecast" /\ arg.daysAhead >= 1
        /\ Len(hist) >= ClaimedMinimum(arg.fn)) =>
        /\ probe.reads # {}
        /\ \A rd \in probe.reads : rd.idx >= 0 /\ rd.idx < rd.len

\* the shortest history predictLSTM accepts, far ahead: no window scanned,
\* the RSI loop reaching back to closes[0], futureIdx held at the last index
C28_Witness ==
    /\ op = "forecast" /\ arg.fn = "lstm" /\ arg.daysAhead >= 14
    /\ Len(hist) = 15
    /\ probe.scanned = {} /\ probe.bestMatch = 0 /\ probe.futureIdx = 14
    /\ Read("closes", 0, 15) \in probe.reads
    /\ Read("closes", 4, 15) \in probe.reads
    /\ Read("closes", 14, 15) \in probe.reads

\* C29: the date and the confidence of each prediction generatePredictions
\* returns depend only on the last historical date, the day offset and the
\* strategy name: two histories of at least 15 points ending on the same
\* date give, for the same name and horizon, the same dates and the same
\* confidences at every offset, whatever their prices and volumes.
C29_DatesConfidences ==
    (Repeats /\ op = "generate" /\ Len(hist) >= 15) =>
        /\ Len(preds) = Len(kept.result)
        /\ \A i \in 1..Len(preds) :
               /\ preds[i].date = kept.result[i].date
               /\ preds[i].confidence = kept.result[i].confidence

\* two histories that end on the same day and give other prices
C29_Witness ==
    /\ Repeats /\ op = "generate" /\ arg.modelName = "lstm"
    /\ Len(hist) = 15
    /\ Len(preds) = 7 /\ Len(kept.result) = 7
    /\ preds[1].predictedClose # kept.result[1].predictedClose
    /\ preds[7].date = kept.result[7].date
    /\ preds[7].confidence = kept.result[7].confidence

\* liveData is what the selected model gives on rawData, for some state of
\* the random source
LiveDataCurrent(p, zone) ==
    \E tape \in TapesOf(p.selectedModel) :
        p.liveData = LiveDataOf(p.rawData.v, p.selectedModel, tape, zone)

\* C30: under any interleaving of data-fetched, model-changed and
\* company-selected, selecting a company sets rawData and liveData to null
\* and leaves selectedModel unchanged, and whenever no effect is pending
\* and rawData is non-empty, liveData is the combination of the current
\* rawData with the 7-day predictions of the currently selected model,
\* even when handleDataFetched ran with an older model.
C30_PageState ==
    [][/\ page'.last = "company" =>
              /\ page'.rawData = NoData
              /\ page'.liveData = NoData
              /\ page'.selectedModel = page.selectedModel
       /\ (~page'.effect /\ page'.rawData.k = "data") =>
              LiveDataCurrent(page', tz)]_vars

\* the data arrived in a handler that still had 'lstm' selected, and the
\* effect replaced its predictions by those of the model selected since
C30_Witness ==
    /\ page.last = "effect" /\ ~page.effect
    /\ page.handlerModel = "lstm" /\ page.selectedModel = "randomForest"
    /\ page.rawData.k = "data" /\ Len(page.rawData.v) = 16
    /\ Len(page.liveData.v) = 16 + 7
    /\ LiveDataCurrent(page, tz)
    /\ \A tape \in TapesOf("lstm") :
           page.liveData # LiveDataOf(page.rawData.v, "lstm", tape, tz)

====
